---- MODULE Spec2Model ----
(***************************************************************************)
(* The ADR (adaptive data rate) control loop of the network server:        *)
(* handleUplinkADR and handleDownlinkADR over one device's ADR state, its  *)
(* frame history and the MAC payload of the downlink message.              *)
(*                                                                         *)
(* The frame-history store (core/networkserver/device) and the frequency   *)
(* plans (core/band) are modelled from their contract: their code is not   *)
(* part of the sources at hand.                                            *)
(***************************************************************************)
EXTENDS Integers, Sequences, FiniteSets, TLC

VARIABLES
    dev,                \* the device record: dev.ADR and dev.Options
    history,            \* the device's frame history, newest first
    adrAnswer,          \* what the frequency plan answered for the current query, once asked
    lorawanDownlinkMAC, \* MAC payload (Ack, FOpts) of the message the last call worked on
    last,               \* the last call: which handler, its message as received, its result
    run                 \* the calls of handleDownlinkADR in a row in which the plan kept the settings

vars == <<dev, history, adrAnswer, lorawanDownlinkMAC, last, run>>

(***************************************************************************)
(* Program constants                                                       *)
(***************************************************************************)

\* var DefaultADRMargin = 15
DefaultADRMargin == 15

\* lorawan.LinkADRReq, the CID of the command
LinkADRReq == 3

\* FCnt, sentPackets and loss are uint32; the width is scaled to 16 bits so that
\* 100 * loss stays within the integers of the model checker.
UintBits == 16

UintMod == 2 ^ UintBits

\* device.FramesHistorySize is 20 in the store; the window is scaled down.
FramesHistorySize == 2

\* Failed counts the rejected proposals without end; the model stops counting here.
MaxFailed == 1

\* lossPercentage is tried on windows of up to MaxWindow frames with frame
\* counters up to MaxFCnt.
MaxWindow == 3

MaxFCnt == 4

\* int(f) of a float64 that no int can hold (+Inf) is implementation-defined:
\* the smallest int on amd64, the largest on arm64.
ImplementationDefinedInt == {-2147483647, 2147483647}

(***************************************************************************)
(* Input sets                                                              *)
(***************************************************************************)

DataRates == {"SF9BW125", "SF10BW125"}

FrequencyPlans == {"EU_863_870", "99"}

\* frame counter and per-gateway SNR of the uplinks a device sends
UplinkSamples ==
    { [FCnt |-> 0, GatewayMetadata |-> <<>>],
      [FCnt |-> 1, GatewayMetadata |-> <<-5, 5>>] }

\* the frames of the histories handleDownlinkADR is tried on
HistoryFrames ==
    { [FCnt |-> 0, SNR |-> 0, GatewayCount |-> 0],
      [FCnt |-> 1, SNR |-> 5, GatewayCount |-> 2],
      [FCnt |-> 3, SNR |-> 5, GatewayCount |-> 1] }

MarginInputs == {0, 10}

OldLinkADRReq == [CID |-> LinkADRReq, Payload |-> <<80, 255, 0, 1>>]

StaleLinkADRReq == [CID |-> LinkADRReq, Payload |-> <<33, 1, 0, 2>>]

LinkCheckAns == [CID |-> 2, Payload |-> <<20, 1>>]

DevStatusReq == [CID |-> 6, Payload |-> <<>>]

\* command lists that other MAC logic has queued before the ADR code runs
FOptsInputs ==
    { <<LinkCheckAns>>,
      <<OldLinkADRReq, DevStatusReq>>,
      <<DevStatusReq, OldLinkADRReq, LinkCheckAns, StaleLinkADRReq>> }

(***************************************************************************)
(* Frequency plan (core/band), from its contract                           *)
(***************************************************************************)

\* band.Get succeeds for the bands it knows
KnownBands == {"EU_863_870"}

DefaultTXPower == 14

NotFound == -1

GetDataRateIndexFor(dataRate) ==
    CASE dataRate = "SF10BW125" -> 2
      [] dataRate = "SF9BW125" -> 3
      [] OTHER -> NotFound

GetTxPowerIndexFor(txPower) ==
    CASE txPower = 14 -> 1
      [] txPower = 11 -> 2
      [] OTHER -> NotFound

\* the data-rate indices each uplink channel allows
UplinkChannels == << <<2, 3>>, <<3>>, <<0, 1, 2>> >>

NoAnswer == [err |-> "unasked", dataRate |-> "", txPower |-> 0]

Unasked == [err |-> "unasked", dataRate |-> "", txPower |-> 0, loss |-> 0]

\* what a call saw: the plan's answer and the loss percentage
Seen(answer, loss) ==
    [err |-> answer.err, dataRate |-> answer.dataRate, txPower |-> answer.txPower,
     loss |-> loss]

\* ADRSettings answers with a (data rate, power), with ErrADRUnavailable or with
\* another error; which one is the plan's business.
ADRSettingsAnswers ==
    { [err |-> "ErrADRUnavailable", dataRate |-> "", txPower |-> 0],
      [err |-> "error", dataRate |-> "", txPower |-> 0] }
    \cup [err : {"nil"}, dataRate : DataRates \cup {"SF6BW125"}, txPower : {14, 12}]

(***************************************************************************)
(* Frame history store (core/networkserver/device), from its contract      *)
(***************************************************************************)

Min(a, b) == IF a < b THEN a ELSE b

\* Push: prepend as newest, truncate to the window
Push(frames, frame) ==
    SubSeq(<<frame>> \o frames, 1, Min(Len(frames) + 1, FramesHistorySize))

\* Clear: discard all samples
Clear(frames) == <<>>

RECURSIVE BestOf(_, _, _)
BestOf(snrs, i, best) ==
    IF i > Len(snrs) THEN best
    ELSE BestOf(snrs, i + 1, IF snrs[i] > best THEN snrs[i] ELSE best)

\* bestSNR: the best SNR over the gateways, 0 when none reported
bestSNR(gatewayMetadata) ==
    IF Len(gatewayMetadata) = 0 THEN 0
    ELSE BestOf(gatewayMetadata, 1, gatewayMetadata[1])

(***************************************************************************)
(* maxSNR and lossPercentage                                               *)
(***************************************************************************)

RECURSIVE MaxFrom(_, _, _)
MaxFrom(frames, i, max) ==
    IF i > Len(frames) THEN max
    ELSE MaxFrom(frames, i + 1, IF frames[i].SNR > max THEN frames[i].SNR ELSE max)

maxSNR(frames) ==
    IF Len(frames) = 0 THEN 0 ELSE MaxFrom(frames, 1, frames[1].SNR)

sentPackets(frames) == (frames[1].FCnt - frames[Len(frames)].FCnt + 1) % UintMod

lostPackets(frames) == (sentPackets(frames) - (Len(frames) % UintMod)) % UintMod

\* floor(x + .5) of x = loss / sentPackets * 100, were x computed exactly
RoundPercent(loss, sent) == (200 * loss + sent) \div (2 * sent)

\* x is computed in float64: the quotient is rounded before it is multiplied.
\* Where the exact x is k + 1/2 the computed x can fall just below it
\* (23 / 40 * 100 is 57.49999999999999) and floor(x + .5) is then k, not k + 1.
\* It cannot when sentPackets is a power of two: the quotient is then exact.
HalfWay(loss, sent) ==
    (200 * loss) % sent = 0 /\ ((200 * loss) \div sent) % 2 = 1

ExactQuotient(sent) == \E k \in 0..UintBits : sent = 2 ^ k

FloatRoundPercent(loss, sent) ==
    IF HalfWay(loss, sent) /\ ~ExactQuotient(sent)
    THEN {RoundPercent(loss, sent) - 1, RoundPercent(loss, sent)}
    ELSE {RoundPercent(loss, sent)}

\* The values lossPercentage can return: one value, except where the float
\* rounding decides, and when sentPackets is 0: the quotient is then +Inf and
\* its conversion to int is implementation-defined.
lossPercentage(frames) ==
    IF Len(frames) = 0 THEN {0}
    ELSE IF sentPackets(frames) = 0 THEN ImplementationDefinedInt
    ELSE FloatRoundPercent(lostPackets(frames), sentPackets(frames))

(***************************************************************************)
(* handleUplinkADR                                                         *)
(***************************************************************************)

\* mutant: the frame takes the gateway count for the frame counter
UplinkFrameMiscounted(up) ==
    [FCnt |-> Len(up.GatewayMetadata) % UintMod,
     SNR |-> bestSNR(up.GatewayMetadata),
     GatewayCount |-> Len(up.GatewayMetadata) % UintMod]

\* the frame an ADR-enabled uplink pushes
UplinkFrame(up) ==
    [FCnt |-> up.FCnt,
     SNR |-> bestSNR(up.GatewayMetadata),
     GatewayCount |-> Len(up.GatewayMetadata) % UintMod]

\* mutant: every ADR-enabled uplink schedules a LinkADRReq
UplinkEnabledAlwaysSends(adr, up) ==
    [adr EXCEPT !.Band = IF @ = "" THEN up.FrequencyPlan ELSE @,
                !.DataRate = up.DataRate,
                !.SendReq = TRUE]

\* mutant: the band of every ADR-enabled uplink is stored
UplinkEnabledOverwritesBand(adr, up) ==
    LET a1 == [adr EXCEPT !.Band = up.FrequencyPlan]
        a2 == IF a1.DataRate # up.DataRate
              THEN [a1 EXCEPT !.DataRate = up.DataRate, !.SendReq = TRUE]
              ELSE a1
    IN  IF up.ADRAckReq THEN [a2 EXCEPT !.SendReq = TRUE] ELSE a2

\* the ADR state after an ADR-enabled uplink
UplinkEnabled(adr, up) ==
    LET a1 == IF adr.Band = "" THEN [adr EXCEPT !.Band = up.FrequencyPlan] ELSE adr
        a2 == IF a1.DataRate # up.DataRate
              THEN [a1 EXCEPT !.DataRate = up.DataRate, !.SendReq = TRUE]
              ELSE a1
    IN  IF up.ADRAckReq THEN [a2 EXCEPT !.SendReq = TRUE] ELSE a2

\* mutant: every ADR-enabled uplink forces a downlink
UplinkAckForced(ack, up) == TRUE

\* the Ack bit of the response template after an ADR-enabled uplink
UplinkAck(ack, up) == IF up.ADRAckReq THEN TRUE ELSE ack

\* mutant: the reset forgets NbTrans
UplinkDisabledKeepsNbTrans(adr) ==
    [adr EXCEPT !.SendReq = FALSE, !.DataRate = "", !.TxPower = 0]

\* the ADR state after an ADR-disabled uplink
UplinkDisabled(adr) ==
    [adr EXCEPT !.SendReq = FALSE, !.DataRate = "", !.TxPower = 0, !.NbTrans = 0]

\* mutant: a failed Push ends the call with its error
handleUplinkADRAbortsOnPush(d, h, mac, up, framesErr, pushErr, clearErr) ==
    IF framesErr
    THEN [dev |-> d, history |-> h, mac |-> mac, err |-> "frames", path |-> "frames"]
    ELSE IF up.ADR
    THEN IF pushErr
         THEN [dev |-> d, history |-> h, mac |-> mac, err |-> "push", path |-> "pushfailed"]
         ELSE [dev |-> [d EXCEPT !.ADR = UplinkEnabled(d.ADR, up)],
               history |-> Push(h, UplinkFrame(up)),
               mac |-> [mac EXCEPT !.Ack = UplinkAck(mac.Ack, up)],
               err |-> "nil",
               path |-> "pushed"]
    ELSE IF clearErr
    THEN [dev |-> d, history |-> h, mac |-> mac, err |-> "clear", path |-> "clear"]
    ELSE [dev |-> [d EXCEPT !.ADR = UplinkDisabled(d.ADR)],
          history |-> Clear(h),
          mac |-> mac,
          err |-> "nil",
          path |-> "reset"]

\* mutant: the settings are reset before Clear is called
handleUplinkADRResetsFirst(d, h, mac, up, framesErr, pushErr, clearErr) ==
    IF framesErr
    THEN [dev |-> d, history |-> h, mac |-> mac, err |-> "frames", path |-> "frames"]
    ELSE IF up.ADR
    THEN [dev |-> [d EXCEPT !.ADR = UplinkEnabled(d.ADR, up)],
          history |-> IF pushErr THEN h ELSE Push(h, UplinkFrame(up)),
          mac |-> [mac EXCEPT !.Ack = UplinkAck(mac.Ack, up)],
          err |-> "nil",
          path |-> IF pushErr THEN "pushfailed" ELSE "pushed"]
    ELSE IF clearErr
    THEN [dev |-> [d EXCEPT !.ADR = UplinkDisabled(d.ADR)],
          history |-> h, mac |-> mac, err |-> "clear", path |-> "clear"]
    ELSE [dev |-> [d EXCEPT !.ADR = UplinkDisabled(d.ADR)],
          history |-> Clear(h),
          mac |-> mac,
          err |-> "nil",
          path |-> "reset"]

\* The call on uplink `up` with response template `mac`; framesErr, pushErr and
\* clearErr say which calls of the store fail. Gives the device, the history,
\* the template and the error the call leaves.
handleUplinkADR(d, h, mac, up, framesErr, pushErr, clearErr) ==
    IF framesErr
    THEN [dev |-> d, history |-> h, mac |-> mac, err |-> "frames", path |-> "frames"]
    ELSE IF up.ADR
    THEN [dev |-> [d EXCEPT !.ADR = UplinkEnabled(d.ADR, up)],
          history |-> IF pushErr THEN h ELSE Push(h, UplinkFrame(up)),
          mac |-> [mac EXCEPT !.Ack = UplinkAck(mac.Ack, up)],
          err |-> "nil",
          path |-> IF pushErr THEN "pushfailed" ELSE "pushed"]
    ELSE IF clearErr
    THEN [dev |-> d, history |-> h, mac |-> mac, err |-> "clear", path |-> "clear"]
    ELSE [dev |-> [d EXCEPT !.ADR = UplinkDisabled(d.ADR)],
          history |-> Clear(h),
          mac |-> mac,
          err |-> "nil",
          path |-> "reset"]

(***************************************************************************)
(* handleDownlinkADR                                                       *)
(***************************************************************************)

\* mutant: the default margin is added to the stored margin
MarginAdded(adr) == [adr EXCEPT !.Margin = @ + DefaultADRMargin]

\* the three defaults, in the order the code applies them
MarginDefault(adr) ==
    IF adr.Margin = 0 THEN [adr EXCEPT !.Margin = DefaultADRMargin] ELSE adr

\* mutant: the plan's default power is stored whatever is stored
TxPowerDefaultAlways(adr) == [adr EXCEPT !.TxPower = DefaultTXPower]

TxPowerDefault(adr) ==
    IF adr.TxPower = 0 THEN [adr EXCEPT !.TxPower = DefaultTXPower] ELSE adr

NbTransDefault(adr) ==
    IF adr.NbTrans = 0 THEN [adr EXCEPT !.NbTrans = 1] ELSE adr

\* mutant: the clamp forgets the upper end
ClampNbTransBelowOnly(nbTrans) == IF nbTrans < 1 THEN 1 ELSE nbTrans

\* the clamp of nbTrans to 1..3
ClampNbTrans(nbTrans) ==
    IF nbTrans < 1 THEN 1 ELSE IF nbTrans > 3 THEN 3 ELSE nbTrans

\* mutant: the cases of the switch leave out their upper ends
AdjustNbTransBelow(nbTrans, loss) ==
    ClampNbTrans(CASE loss < 5 -> nbTrans - 1
                   [] loss >= 5 /\ loss < 10 -> nbTrans
                   [] loss >= 10 /\ loss < 30 -> nbTrans + 1
                   [] OTHER -> nbTrans + 2)

\* the switch on the loss percentage, then the clamp
AdjustNbTrans(nbTrans, loss) ==
    ClampNbTrans(CASE loss <= 5 -> nbTrans - 1
                   [] loss > 5 /\ loss <= 10 -> nbTrans
                   [] loss > 10 /\ loss <= 30 -> nbTrans + 1
                   [] OTHER -> nbTrans + 2)

\* whether the loss-based adjustment runs
AdjustApplies(d, dataRate, txPower) ==
    /\ d.ADR.DataRate = dataRate
    /\ d.ADR.TxPower = txPower
    /\ ~d.Options.DisableFCntCheck

\* the comparison that ends the call without a command
SameSettings(adr, dataRate, txPower, nbTrans) ==
    adr.DataRate = dataRate /\ adr.TxPower = txPower /\ adr.NbTrans = nbTrans

\* mutant: only the first data rate of a channel is looked at
ChMaskFirstOnly(drIDx) ==
    [i \in 0..15 |->
        /\ i < Len(UplinkChannels)
        /\ Len(UplinkChannels[i + 1]) > 0
        /\ UplinkChannels[i + 1][1] = drIDx]

\* response.ChMask: one bit per channel that allows drIDx
ChMask(drIDx) ==
    [i \in 0..15 |->
        /\ i < Len(UplinkChannels)
        /\ \E k \in 1..Len(UplinkChannels[i + 1]) : UplinkChannels[i + 1][k] = drIDx]

RECURSIVE MaskBits(_, _, _)
MaskBits(mask, from, to) ==
    IF from > to THEN 0
    ELSE (IF mask[from] THEN 1 ELSE 0) + 2 * MaskBits(mask, from + 1, to)

\* LinkADRReqPayload.MarshalBinary: DataRate and TXPower in one byte, the mask in
\* two bytes (little endian), ChMaskCntl and NbRep in one byte; nothing, with an
\* error the code drops, when a field does not fit
MarshalBinary(p) ==
    IF p.DataRate > 15 \/ p.TXPower > 15 \/ p.NbRep > 15 \/ p.ChMaskCntl > 7
    THEN <<>>
    ELSE <<p.DataRate * 16 + p.TXPower,
           MaskBits(p.ChMask, 0, 7),
           MaskBits(p.ChMask, 8, 15),
           p.ChMaskCntl * 16 + p.NbRep>>

LinkADRReqPayload(drIDx, powerIDx, nbTrans) ==
    [DataRate |-> drIDx % 256,
     TXPower |-> powerIDx % 256,
     ChMask |-> ChMask(drIDx),
     ChMaskCntl |-> 0,
     NbRep |-> nbTrans % 256]

\* mutant: the new command is appended without removing the queued ones
SpliceKeepingQueued(fOpts, payload) ==
    Append(fOpts, [CID |-> LinkADRReq, Payload |-> payload])

\* "Remove LinkADRReq if already added", then append the new one
SpliceLinkADRReq(fOpts, payload) ==
    Append(SelectSeq(fOpts, LAMBDA existing : existing.CID # LinkADRReq),
           [CID |-> LinkADRReq, Payload |-> payload])

PowerIndex(txPower) ==
    IF GetTxPowerIndexFor(txPower) = NotFound
    THEN GetTxPowerIndexFor(DefaultTXPower)
    ELSE GetTxPowerIndexFor(txPower)

\* mutant: the command is queued before the plan is asked, and stays in the
\* list on the returns that follow
DownlinkReturnQueuedEarly(d, mac, err, path, asked) ==
    [dev |-> d,
     mac |-> IF asked /\ path # "emitted"
             THEN [mac EXCEPT !.FOpts = Append(@, [CID |-> LinkADRReq, Payload |-> <<>>])]
             ELSE mac,
     err |-> err, path |-> path, asked |-> asked]

DownlinkReturn(d, mac, err, path, asked) ==
    [dev |-> d, mac |-> mac, err |-> err, path |-> path, asked |-> asked]

\* from "Calculate ADR settings" on: d has the defaults applied, answer is what
\* ADRSettings gives, loss what lossPercentage gives if it is called
ProposeSettings(d, mac, answer, loss) ==
    IF answer.err = "ErrADRUnavailable"
    THEN DownlinkReturn(d, mac, "nil", "unavailable", TRUE)
    ELSE IF answer.err # "nil"
    THEN DownlinkReturn(d, mac, "plan", "plan", TRUE)
    ELSE IF GetDataRateIndexFor(answer.dataRate) = NotFound
    THEN DownlinkReturn(d, mac, "drindex", "drindex", TRUE)
    ELSE LET dataRate == answer.dataRate
             txPower == answer.txPower
             drIDx == GetDataRateIndexFor(dataRate)
             powerIDx == PowerIndex(txPower)
             nbTrans == IF AdjustApplies(d, dataRate, txPower)
                        THEN AdjustNbTrans(d.ADR.NbTrans, loss)
                        ELSE d.ADR.NbTrans
         IN  IF SameSettings(d.ADR, dataRate, txPower, nbTrans)
             THEN DownlinkReturn(d, mac, "nil", "same", TRUE)
             ELSE DownlinkReturn(
                      [d EXCEPT !.ADR.DataRate = dataRate,
                                !.ADR.TxPower = txPower,
                                !.ADR.NbTrans = nbTrans],
                      [mac EXCEPT !.FOpts = SpliceLinkADRReq(
                          mac.FOpts,
                          MarshalBinary(LinkADRReqPayload(drIDx, powerIDx, nbTrans)))],
                      "nil", "emitted", TRUE)

\* The call on message `mac` with history h; getErr says whether history.Get
\* fails. Gives the device, the message and the error the call leaves.
handleDownlinkADR(d, h, mac, getErr, answer, loss) ==
    IF ~d.ADR.SendReq THEN DownlinkReturn(d, mac, "nil", "nosendreq", FALSE)
    ELSE IF d.ADR.Failed > 0 THEN DownlinkReturn(d, mac, "nil", "failed", FALSE)
    ELSE IF getErr THEN DownlinkReturn(d, mac, "get", "get", FALSE)
    ELSE IF Len(h) < FramesHistorySize
    THEN DownlinkReturn(d, mac, "nil", "fewframes", FALSE)
    ELSE IF d.ADR.DataRate = "" THEN DownlinkReturn(d, mac, "nil", "nodatarate", FALSE)
    ELSE LET d1 == [d EXCEPT !.ADR = MarginDefault(d.ADR)]
         IN  IF d1.ADR.Band = "" THEN DownlinkReturn(d1, mac, "nil", "noband", FALSE)
             ELSE IF d1.ADR.Band \notin KnownBands
             THEN DownlinkReturn(d1, mac, "band", "band", FALSE)
             ELSE ProposeSettings(
                      [d1 EXCEPT !.ADR = NbTransDefault(TxPowerDefault(d1.ADR))],
                      mac, answer, loss)

(***************************************************************************)
(* State machine                                                           *)
(***************************************************************************)

\* the frames handleDownlinkADR looks at
Window(h) == SubSeq(h, 1, Min(Len(h), FramesHistorySize))

\* what ADRSettings is asked with: the band's plan, the stored data rate and
\* power, the best SNR of the window and the margin, defaults applied
PlanQuery(d, h) ==
    <<d.ADR.Band, d.ADR.DataRate, TxPowerDefault(d.ADR).TxPower,
      maxSNR(Window(h)), MarginDefault(d.ADR).Margin>>

\* A frequency plan is a table: asked the same again, it answers the same; and
\* one build converts +Inf to one int.
Remember(d, h, d2, h2, answer) ==
    IF PlanQuery(d2, h2) = PlanQuery(d, h) THEN answer ELSE Unasked

NewADR ==
    [SendReq |-> FALSE, Failed |-> 0, Band |-> "", DataRate |-> "",
     TxPower |-> 0, NbTrans |-> 0, Margin |-> 0]

NoUplink ==
    [ADR |-> FALSE, ADRAckReq |-> FALSE, Sample |-> [FCnt |-> 0, GatewayMetadata |-> <<>>],
     DataRate |-> "", FrequencyPlan |-> ""]

NoCall ==
    [op |-> "none", err |-> "nil", path |-> "none", up |-> NoUplink,
     macIn |-> [Ack |-> FALSE, FOpts |-> <<>>]]

\* no call in which the plan kept the settings has been made
NoRun == [kept |-> FALSE, emits |-> 0]

\* whether the plan answered with the data rate and power the device had
\* stored when it was asked (d is the device the call was made on)
PlanKept(d, answer, path) ==
    /\ path \in {"same", "emitted"}
    /\ answer.dataRate = d.ADR.DataRate
    /\ answer.txPower = TxPowerDefault(d.ADR).TxPower

\* the run after a call of handleDownlinkADR: the LinkADRReq emitted by the
\* calls in a row in which the plan kept the settings
NextRun(d, answer, path) ==
    IF PlanKept(d, answer, path)
    THEN [kept |-> TRUE, emits |-> run.emits + (IF path = "emitted" THEN 1 ELSE 0)]
    ELSE NoRun

\* A device as registered: no ADR state yet; the margin and the options are
\* set outside the ADR code.
Init ==
    /\ \E margin \in MarginInputs, noFCntCheck \in BOOLEAN :
          dev = [ADR |-> [NewADR EXCEPT !.Margin = margin],
                 Options |-> [DisableFCntCheck |-> noFCntCheck]]
    /\ history = <<>>
    /\ adrAnswer = Unasked
    /\ lorawanDownlinkMAC = NoCall.macIn
    /\ last = NoCall
    /\ run = NoRun

Uplinks ==
    [ADR : {TRUE}, ADRAckReq : BOOLEAN, Sample : UplinkSamples,
     DataRate : DataRates, FrequencyPlan : FrequencyPlans]
    \cup [ADR : {FALSE}, ADRAckReq : BOOLEAN, Sample : {[FCnt |-> 1, GatewayMetadata |-> <<-5, 5>>]},
          DataRate : {"SF9BW125"}, FrequencyPlan : {"EU_863_870"}]

\* the fields of the uplink message the ADR code reads
UplinkFields(u) ==
    [ADR |-> u.ADR, ADRAckReq |-> u.ADRAckReq, FCnt |-> u.Sample.FCnt,
     GatewayMetadata |-> u.Sample.GatewayMetadata, DataRate |-> u.DataRate,
     FrequencyPlan |-> u.FrequencyPlan]

ResponseTemplates == [Ack : BOOLEAN, FOpts : {<<LinkCheckAns>>}]

DownlinkMessages == [Ack : {TRUE}, FOpts : FOptsInputs]

UplinkCall(u, mac, fails) ==
    \E r \in {handleUplinkADR(dev, history, mac, UplinkFields(u),
                                fails = "frames", fails = "push", fails = "clear")} :
        /\ dev' = r.dev
        /\ history' = r.history
        /\ lorawanDownlinkMAC' = r.mac
        /\ adrAnswer' = Unasked
        /\ last' = [op |-> "uplink", err |-> r.err, path |-> r.path, up |-> u, macIn |-> mac]
        /\ run' = NoRun

\* Frames fails before anything of the uplink is looked at; Push fails on an
\* ADR-enabled uplink, Clear on an ADR-disabled one.
HandleUplinkADR ==
    \/ \E mac \in ResponseTemplates : UplinkCall(NoUplink, mac, "frames")
    \/ \E u \in Uplinks, mac \in ResponseTemplates :
          \E fails \in {"none", IF u.ADR THEN "push" ELSE "clear"} : UplinkCall(u, mac, fails)

DownlinkCall(mac, fails, answer, loss) ==
    \E r \in {handleDownlinkADR(dev, history, mac, fails = "get", answer, loss)} :
        /\ r.asked => adrAnswer \in {Unasked, Seen(answer, loss)}
        /\ loss \in lossPercentage(Window(history))
        /\ dev' = r.dev
        /\ history' = history
        /\ lorawanDownlinkMAC' = r.mac
        /\ adrAnswer' = Remember(dev, history, r.dev, history,
                                 IF r.asked THEN Seen(answer, loss) ELSE adrAnswer)
        /\ last' = [op |-> "downlink", err |-> r.err, path |-> r.path, up |-> NoUplink,
                    macIn |-> mac]
        /\ run' = NextRun(dev, answer, r.path)

\* whether the call gets as far as history.Get, and as far as ADRSettings
ReadsHistory(d) == d.ADR.SendReq /\ d.ADR.Failed = 0

AsksPlan(d, h) ==
    /\ ReadsHistory(d)
    /\ Len(h) >= FramesHistorySize
    /\ d.ADR.DataRate # ""
    /\ d.ADR.Band \in KnownBands

HandleDownlinkADR ==
    \E mac \in DownlinkMessages :
        \E fails \in (IF ReadsHistory(dev) THEN {"none", "get"} ELSE {"none"}) :
            \E answer \in (IF AsksPlan(dev, history) /\ fails = "none"
                            THEN ADRSettingsAnswers ELSE {NoAnswer}) :
                \E loss \in lossPercentage(Window(history)) :
                    DownlinkCall(mac, fails, answer, loss)

\* The confirmation logic outside the ADR code: the device's answer to a
\* LinkADRReq clears SendReq (and the failure counter) when it accepts, and
\* counts a failure when it rejects.
LinkADRAns ==
    /\ dev.ADR.SendReq
    /\ \E accepted \in BOOLEAN :
          /\ ~accepted => dev.ADR.Failed < MaxFailed
          /\ dev' = IF accepted
                    THEN [dev EXCEPT !.ADR.SendReq = FALSE, !.ADR.Failed = 0]
                    ELSE [dev EXCEPT !.ADR.Failed = @ + 1]
    /\ last' = [NoCall EXCEPT !.op = "answer"]
    /\ run' = NoRun
    /\ UNCHANGED <<history, adrAnswer, lorawanDownlinkMAC>>

Next == HandleUplinkADR \/ HandleDownlinkADR \/ LinkADRAns

Spec == Init /\ [][Next]_vars

(***************************************************************************)
(* handleDownlinkADR on any device record and any history                  *)
(***************************************************************************)

Histories == UNION {[1..n -> HistoryFrames] : n \in 0..FramesHistorySize}

ADRStates ==
    [SendReq : BOOLEAN, Failed : 0..MaxFailed, Band : {""} \cup FrequencyPlans,
     DataRate : {"", "SF9BW125"}, TxPower : {0, 14}, NbTrans : 0..3,
     Margin : MarginInputs]

InitDownlink ==
    /\ dev \in [ADR : ADRStates, Options : [DisableFCntCheck : BOOLEAN]]
    /\ history \in Histories
    /\ adrAnswer = Unasked
    /\ lorawanDownlinkMAC = NoCall.macIn
    /\ last = NoCall
    /\ run = NoRun

NextDownlink == HandleDownlinkADR

SpecDownlink == InitDownlink /\ [][NextDownlink]_vars

(***************************************************************************)
(* handleDownlinkADR on the loss percentages of windows of 20 frames        *)
(***************************************************************************)

\* what lossPercentage gives on a window of 20 frames (the FramesHistorySize
\* of the store) with sentPackets 20, 21, 22, 23, 28, 29 and 4000, and with
\* sentPackets 0
LossPercentages == {0, 5, 9, 13, 29, 31, 100} \cup ImplementationDefinedInt

FullWindow == [i \in 1..FramesHistorySize |-> [FCnt |-> 3, SNR |-> 5, GatewayCount |-> 1]]

\* a device with a request pending and a band the plans know
InitAdjust ==
    /\ dev \in [ADR : {adr \in ADRStates :
                        adr.SendReq /\ adr.Failed = 0 /\ adr.Band \in KnownBands},
                 Options : [DisableFCntCheck : BOOLEAN]]
    /\ history = FullWindow
    /\ adrAnswer = Unasked
    /\ lorawanDownlinkMAC = NoCall.macIn
    /\ last = NoCall
    /\ run = NoRun

\* the call with the plan answering anything and lossPercentage giving loss,
\* both as before when the plan is asked the same again (the window is the
\* same window)
AdjustDownlinkADR ==
    \E mac \in DownlinkMessages :
        \E answer \in (IF AsksPlan(dev, history) THEN ADRSettingsAnswers ELSE {NoAnswer}) :
            \E loss \in LossPercentages :
                \E r \in {handleDownlinkADR(dev, history, mac, FALSE, answer, loss)} :
                    /\ adrAnswer \in {Unasked, Seen(answer, loss)}
                    /\ dev' = r.dev
                    /\ history' = history
                    /\ lorawanDownlinkMAC' = r.mac
                    /\ adrAnswer' = Remember(dev, history, r.dev, history, Seen(answer, loss))
                    /\ last' = [op |-> "downlink", err |-> r.err, path |-> r.path,
                                up |-> NoUplink, macIn |-> mac]
                    /\ run' = NextRun(dev, answer, r.path)

SpecAdjust == InitAdjust /\ [][AdjustDownlinkADR]_vars

(***************************************************************************)
(* lossPercentage on any window                                            *)
(***************************************************************************)

LossFrames == [FCnt : 0..MaxFCnt, SNR : {0}, GatewayCount : {1}]

\* the counters 100..119 without 105 and 110, newest first
ExampleCounters ==
    <<119, 118, 117, 116, 115, 114, 113, 112, 111, 109, 108, 107, 106, 104, 103, 102, 101, 100>>

ExampleWindow ==
    [i \in 1..Len(ExampleCounters) |->
        [FCnt |-> ExampleCounters[i], SNR |-> 0, GatewayCount |-> 1]]

LossWindows ==
    UNION {[1..n -> LossFrames] : n \in 0..MaxWindow} \cup {ExampleWindow}

InitLossPercentage ==
    /\ dev = [ADR |-> NewADR, Options |-> [DisableFCntCheck |-> FALSE]]
    /\ history \in LossWindows
    /\ adrAnswer = Unasked
    /\ lorawanDownlinkMAC = NoCall.macIn
    /\ last = NoCall
    /\ run = NoRun

\* lossPercentage(frames) on the window at hand; its result is kept in
\* adrAnswer.loss
LossPercentage ==
    /\ last.op = "none"
    /\ \E loss \in lossPercentage(history) :
          adrAnswer' = Seen(NoAnswer, loss)
    /\ last' = [NoCall EXCEPT !.op = "lossPercentage"]
    /\ UNCHANGED <<dev, history, lorawanDownlinkMAC, run>>

SpecLossPercentage == InitLossPercentage /\ [][LossPercentage]_vars

TypeOK ==
    /\ dev.ADR \in [SendReq : BOOLEAN, Failed : 0..MaxFailed, Band : {""} \cup FrequencyPlans,
                    DataRate : {""} \cup DataRates, TxPower : {0, 14, 12}, NbTrans : 0..3,
                    Margin : MarginInputs \cup {DefaultADRMargin}]
    /\ history \in Histories

(***************************************************************************)
(* Properties                                                              *)
(***************************************************************************)

\* the (DataRate, TxPower, NbTrans) of a device
Settings(d) == <<d.ADR.DataRate, d.ADR.TxPower, d.ADR.NbTrans>>

\* a step that is a call of handleDownlinkADR
DownlinkStep == last'.op = "downlink"

\* the call of the step left device and message as it found them
NoEffect == dev' = dev /\ lorawanDownlinkMAC' = last'.macIn

\* the call of the step added, removed or rewrote no command
NoCommand == lorawanDownlinkMAC' = last'.macIn

\* C1 as stated: of two calls of handleDownlinkADR in a row on a full window,
\* with the same history and the frequency plan giving the same answer to both,
\* the second changes neither (DataRate, TxPower, NbTrans) nor the command list.
\* (Stated on the windows without a gap, where lossPercentage is 0.)
C1_SecondCallIsNoop ==
    [][(/\ last.op = "downlink"
        /\ last.err = "nil"
        /\ adrAnswer.err = "nil"
        /\ adrAnswer' = adrAnswer
        /\ Len(history) >= FramesHistorySize
        /\ lossPercentage(Window(history)) = {0}
        /\ DownlinkStep)
       => (Settings(dev') = Settings(dev) /\ NoCommand)]_vars

\* C1, amended: when a call of handleDownlinkADR on a full window returned
\* success without emitting a LinkADRReq, the call that follows it with no
\* uplink in between changes nothing of the device and emits nothing.
C1_NoopCallRepeats ==
    [][(/\ last.op = "downlink"
        /\ last.err = "nil"
        /\ last.path # "emitted"
        /\ Len(history) >= FramesHistorySize
        /\ DownlinkStep)
       => (NoEffect /\ last'.path # "emitted")]_vars

\* C1 witness: a second call in a row that got as far as comparing the settings
\* and found them the same, the first having done so before it.
C1_Witness ==
    /\ last.op = "downlink"
    /\ last.path = "same"
    /\ Len(history) >= FramesHistorySize
    /\ adrAnswer.err = "nil"
    /\ dev.ADR.NbTrans = 3

\* the conditions under which handleDownlinkADR is to return early
EarlyExit(d, h) ==
    \/ ~d.ADR.SendReq
    \/ d.ADR.Failed > 0
    \/ Len(h) < FramesHistorySize
    \/ d.ADR.DataRate = ""
    \/ d.ADR.Band = ""

\* C2: a call of handleDownlinkADR with SendReq false, Failed > 0, fewer frames
\* than the window, no DataRate or no Band returns success and leaves every
\* field of the ADR state and the command list as they were.
C2_EarlyExitNoEffect ==
    [][(DownlinkStep /\ last'.err # "get" /\ EarlyExit(dev, history))
       => (last'.err = "nil" /\ NoEffect)]_vars

\* the commands of a list that are no LinkADRReq, in their order
RECURSIVE OtherCommands(_)
OtherCommands(fOpts) ==
    IF fOpts = <<>> THEN <<>>
    ELSE IF Head(fOpts).CID = LinkADRReq THEN OtherCommands(Tail(fOpts))
    ELSE <<Head(fOpts)>> \o OtherCommands(Tail(fOpts))

CountLinkADRReq(fOpts) == Cardinality({i \in 1..Len(fOpts) : fOpts[i].CID = LinkADRReq})

\* the command that states the settings of device d
FreshLinkADRReq(d) ==
    [CID |-> LinkADRReq,
     Payload |-> MarshalBinary(LinkADRReqPayload(GetDataRateIndexFor(d.ADR.DataRate),
                                                 PowerIndex(d.ADR.TxPower),
                                                 d.ADR.NbTrans))]

Emitted == last.op = "downlink" /\ last.path = "emitted"

\* C3: after handleDownlinkADR accepts a proposal, the command list holds
\* exactly one LinkADRReq, the one built from the settings just stored, as its
\* last element, and before it the other commands of the list as received, in
\* their order.
C3_SpliceKeepsOneLinkADRReq ==
    Emitted =>
        LET fOpts == lorawanDownlinkMAC.FOpts
        IN  /\ CountLinkADRReq(fOpts) = 1
            /\ fOpts[Len(fOpts)] = FreshLinkADRReq(dev)
            /\ SubSeq(fOpts, 1, Len(fOpts) - 1) = OtherCommands(last.macIn.FOpts)

\* C3 witness: a proposal spliced into a list that held two LinkADRReq among
\* other commands.
C3_Witness ==
    /\ Emitted
    /\ CountLinkADRReq(last.macIn.FOpts) = 2
    /\ Len(OtherCommands(last.macIn.FOpts)) = 2

\* C4: an ADR-disabled uplink whose history clear succeeds leaves SendReq
\* false, DataRate empty, TxPower 0, NbTrans 0 and the history empty, and Band,
\* Margin and Failed as they were.
C4_DisableResets ==
    [][(last'.op = "uplink" /\ ~last'.up.ADR /\ last'.err = "nil")
       => (/\ dev'.ADR.SendReq = FALSE
           /\ dev'.ADR.DataRate = ""
           /\ dev'.ADR.TxPower = 0
           /\ dev'.ADR.NbTrans = 0
           /\ history' = <<>>
           /\ dev'.ADR.Band = dev.ADR.Band
           /\ dev'.ADR.Margin = dev.ADR.Margin
           /\ dev'.ADR.Failed = dev.ADR.Failed)]_vars

\* C4 witness: the reset of a device that had been through a downlink
\* computation (its margin default is stored).
C4_Witness ==
    /\ last.op = "uplink"
    /\ ~last.up.ADR
    /\ last.err = "nil"
    /\ dev.ADR.Margin = DefaultADRMargin
    /\ dev.ADR.Band # ""
    /\ dev.ADR.NbTrans = 0

\* the NbRep of an encoded LinkADRReq
NbRep(command) == command.Payload[4] % 16

\* C5: the NbTrans that handleDownlinkADR stores, and the NbRep of the
\* LinkADRReq it emits, are in 1..3.
C5_NbTransClamped ==
    /\ (last.op = "downlink" /\ last.path \in {"unavailable", "plan", "drindex", "same", "emitted"})
          => dev.ADR.NbTrans \in 1..3
    /\ Emitted =>
          LET fOpts == lorawanDownlinkMAC.FOpts
          IN  /\ Len(fOpts[Len(fOpts)].Payload) = 4
              /\ NbRep(fOpts[Len(fOpts)]) \in 1..3
              /\ NbRep(fOpts[Len(fOpts)]) = dev.ADR.NbTrans

\* C5 witness: a proposal that raised NbTrans to the upper end of the range.
C5_Witness == Emitted /\ dev.ADR.NbTrans = 3 /\ ~dev.Options.DisableFCntCheck

\* a call that compared the settings and found them those it was entered with
SameAsEntered == DownlinkStep /\ last'.path = "same" /\ Settings(dev') = Settings(dev)

\* C6 as stated: a call that passes the guards and computes the settings that
\* were stored when it was made changes no field of the ADR state and emits
\* nothing.
C6_SameChangesNothing == [][SameAsEntered => NoEffect]_vars

\* C6, amended: such a call changes no field of the ADR state but Margin, which
\* it sets to DefaultADRMargin if it was 0, and emits nothing.
C6_SameChangesMarginOnly ==
    [][SameAsEntered =>
          /\ dev' = [dev EXCEPT !.ADR.Margin = IF @ = 0 THEN DefaultADRMargin ELSE @]
          /\ NoCommand]_vars

\* C6 witness: the settings were found the same and the margin is the default.
C6_Witness ==
    /\ last.op = "downlink"
    /\ last.path = "same"
    /\ dev.ADR.Margin = DefaultADRMargin
    /\ lorawanDownlinkMAC = last.macIn

\* whether a call gets to the line that defaults the margin
ReachesMargin(d, h) ==
    /\ d.ADR.SendReq
    /\ d.ADR.Failed = 0
    /\ Len(h) >= FramesHistorySize
    /\ d.ADR.DataRate # ""

\* C7 as stated: every call entered with Margin = 0 leaves Margin at
\* DefaultADRMargin, every call entered with another Margin leaves it.
C7_MarginDefaulted ==
    [][DownlinkStep =>
          dev'.ADR.Margin = IF dev.ADR.Margin = 0 THEN DefaultADRMargin ELSE dev.ADR.Margin]_vars

\* C7, amended: a call entered with Margin = 0 that passes every guard
\* (SendReq, Failed, the history read, the window, DataRate and Band) leaves
\* Margin at DefaultADRMargin; one that returns at the SendReq, Failed, window
\* or DataRate guard, or on a failed history read, leaves it 0; a call entered
\* with another Margin leaves it as it was.
C7_MarginDefaultedPastGuards ==
    [][DownlinkStep =>
          /\ dev.ADR.Margin # 0 => dev'.ADR.Margin = dev.ADR.Margin
          /\ (/\ dev.ADR.Margin = 0
              /\ ReachesMargin(dev, history)
              /\ last'.err # "get"
              /\ dev.ADR.Band # "") => dev'.ADR.Margin = DefaultADRMargin
          /\ (/\ dev.ADR.Margin = 0
              /\ (~ReachesMargin(dev, history) \/ last'.err = "get"))
                 => dev'.ADR.Margin = 0]_vars

\* C7 witness: a call that passed the guards has stored the default margin.
C7_Witness ==
    /\ last.op = "downlink"
    /\ dev.ADR.Margin = DefaultADRMargin
    /\ last.path \in {"band", "unavailable", "plan", "drindex", "same", "emitted"}

\* the frame of an uplink, field by field
PushedFrame(u) ==
    [FCnt |-> u.Sample.FCnt,
     SNR |-> bestSNR(u.Sample.GatewayMetadata),
     GatewayCount |-> Len(u.Sample.GatewayMetadata)]

C9_ErrorLeavesMessage ==
    (last.op = "downlink" /\ last.err # "nil") => lorawanDownlinkMAC = last.macIn

\* C9 witness: the data-rate index lookup failed on a message that had
\* LinkADRReq queued.
C9_Witness ==
    /\ last.op = "downlink"
    /\ last.err = "drindex"
    /\ CountLinkADRReq(last.macIn.FOpts) > 0

\* a step that is a call of one of the two handlers
HandlerStep == last'.op \in {"uplink", "downlink"}

\* C10: handleDownlinkADR never changes SendReq; among the calls of the two
\* handlers SendReq goes from true to false only in an ADR-disabled uplink, and
\* from false to true only in an ADR-enabled uplink whose data rate differs
\* from the stored one or whose ADRAckReq bit is set.
C10_SendReqLifecycle ==
    [][/\ DownlinkStep => dev'.ADR.SendReq = dev.ADR.SendReq
       /\ (HandlerStep /\ dev.ADR.SendReq /\ ~dev'.ADR.SendReq) =>
             (last'.op = "uplink" /\ ~last'.up.ADR)
       /\ (HandlerStep /\ ~dev.ADR.SendReq /\ dev'.ADR.SendReq) =>
             /\ last'.op = "uplink"
             /\ last'.up.ADR
             /\ (last'.up.DataRate # dev.ADR.DataRate \/ last'.up.ADRAckReq)]_vars

\* C10 witness: a LinkADRReq that raised NbTrans to 3 was emitted, and SendReq
\* is still true.
C10_Witness == Emitted /\ dev.ADR.SendReq /\ dev.ADR.Margin = DefaultADRMargin /\ dev.ADR.NbTrans = 3

\* a step that is a call of handleDownlinkADR which the plan answered with
\* ErrADRUnavailable
Unavailable == DownlinkStep /\ last'.path = "unavailable"

\* C11 as stated: a call that ADRSettings answers with ErrADRUnavailable
\* returns success and leaves the ADR state and the command list as they were.
C11_UnavailableChangesNothing ==
    [][Unavailable => (last'.err = "nil" /\ NoEffect)]_vars

\* C11, amended: such a call returns success, leaves the command list as it
\* was, and changes nothing of the ADR state but the three defaults it stores
\* before it asks the plan: Margin 0 becomes DefaultADRMargin, TxPower 0 the
\* plan's default power, NbTrans 0 becomes 1.
C11_UnavailableStoresDefaultsOnly ==
    [][Unavailable =>
          /\ last'.err = "nil"
          /\ NoCommand
          /\ dev' = [dev EXCEPT
                !.ADR.Margin = IF @ = 0 THEN DefaultADRMargin ELSE @,
                !.ADR.TxPower = IF @ = 0 THEN DefaultTXPower ELSE @,
                !.ADR.NbTrans = IF @ = 0 THEN 1 ELSE @]]_vars

\* C11 witness: the plan answered ErrADRUnavailable on a message with a
\* LinkADRReq queued, for a device whose power is not the default.
C11_Witness ==
    /\ last.op = "downlink"
    /\ last.path = "unavailable"
    /\ dev.ADR.TxPower # DefaultTXPower
    /\ CountLinkADRReq(lorawanDownlinkMAC.FOpts) = 2

\* a step that is a call of handleUplinkADR on an ADR-enabled uplink that got
\* past Frames
EnabledUplink == last'.op = "uplink" /\ last'.up.ADR

\* C12: an ADR-enabled uplink whose Push fails still returns success, stores
\* the band if none was stored, stores the data rate, sets SendReq on a new
\* data rate or on ADRAckReq, and sets Ack on ADRAckReq, as it does when Push
\* succeeds; the history is as it was.
C12_PushFailureGoesOn ==
    [][(EnabledUplink /\ last'.path = "pushfailed") =>
          /\ last'.err = "nil"
          /\ dev' = [dev EXCEPT
                !.ADR.Band = IF @ = "" THEN last'.up.FrequencyPlan ELSE @,
                !.ADR.DataRate = last'.up.DataRate,
                !.ADR.SendReq = @ \/ dev.ADR.DataRate # last'.up.DataRate
                                  \/ last'.up.ADRAckReq]
          /\ lorawanDownlinkMAC' =
                [last'.macIn EXCEPT !.Ack = @ \/ last'.up.ADRAckReq]
          /\ history' = history]_vars

\* C12 witness: an uplink with ADRAckReq whose Push failed has set SendReq and
\* forced the downlink.
C12_Witness ==
    /\ last.op = "uplink"
    /\ last.path = "pushfailed"
    /\ last.err = "nil"
    /\ last.up.ADRAckReq
    /\ ~last.macIn.Ack
    /\ lorawanDownlinkMAC.Ack
    /\ dev.ADR.SendReq

\* C13: an ADR-disabled uplink whose Clear fails returns the error and leaves
\* the device, the history and the response template as they were.
C13_ClearFailureAborts ==
    [][(last'.op = "uplink" /\ last'.path = "clear") =>
          /\ last'.err # "nil"
          /\ dev' = dev
          /\ history' = history
          /\ lorawanDownlinkMAC' = last'.macIn]_vars

\* C13 witness: Clear failed for a device with a request pending and a full
\* history.
C13_Witness ==
    /\ last.op = "uplink"
    /\ last.path = "clear"
    /\ dev.ADR.SendReq
    /\ dev.ADR.NbTrans > 0
    /\ Len(history) = FramesHistorySize

\* C14: after an ADR-enabled uplink the stored DataRate is the uplink's;
\* SendReq is true if the data rate was new or ADRAckReq is set, and as it was
\* otherwise; Ack is true if ADRAckReq is set, and as it was otherwise;
\* TxPower, NbTrans, Margin and Failed are as they were and the command list
\* of the response template is as it was.
C14_EnabledUplinkTransition ==
    [][EnabledUplink =>
          /\ last'.err = "nil"
          /\ dev'.ADR.DataRate = last'.up.DataRate
          /\ dev'.ADR.SendReq =
                IF dev.ADR.DataRate # last'.up.DataRate \/ last'.up.ADRAckReq
                THEN TRUE
                ELSE dev.ADR.SendReq
          /\ lorawanDownlinkMAC'.Ack =
                IF last'.up.ADRAckReq THEN TRUE ELSE last'.macIn.Ack
          /\ dev'.ADR.TxPower = dev.ADR.TxPower
          /\ dev'.ADR.NbTrans = dev.ADR.NbTrans
          /\ dev'.ADR.Margin = dev.ADR.Margin
          /\ dev'.ADR.Failed = dev.ADR.Failed
          /\ dev'.Options = dev.Options
          /\ lorawanDownlinkMAC'.FOpts = last'.macIn.FOpts]_vars

\* C14 witness: an uplink with the stored data rate and no ADRAckReq has left
\* SendReq false and Ack false, for a device with settings stored.
C14_Witness ==
    /\ last.op = "uplink"
    /\ last.up.ADR
    /\ ~last.up.ADRAckReq
    /\ ~dev.ADR.SendReq
    /\ ~lorawanDownlinkMAC.Ack
    /\ dev.ADR.NbTrans > 0

\* C15: no call of handleUplinkADR or handleDownlinkADR changes a Band that
\* is stored; an ADR-enabled uplink of a device with no Band stores the
\* uplink's frequency plan.
C15_BandFirstWins ==
    [][/\ (HandlerStep /\ dev.ADR.Band # "") => dev'.ADR.Band = dev.ADR.Band
       /\ (EnabledUplink /\ dev.ADR.Band = "") =>
             dev'.ADR.Band = last'.up.FrequencyPlan]_vars

\* C15 witness: an ADR-enabled uplink of another frequency plan has left the
\* stored Band.
C15_Witness ==
    /\ last.op = "uplink"
    /\ last.up.ADR
    /\ last.err = "nil"
    /\ dev.ADR.Band # ""
    /\ dev.ADR.Band # last.up.FrequencyPlan

\* a call that got as far as settling NbTrans
SettlesNbTrans == DownlinkStep /\ last'.path \in {"same", "emitted"}

\* the limits of NbTrans
Clamped(n) == IF n < 1 THEN 1 ELSE IF n > 3 THEN 3 ELSE n

\* C16: with n the stored NbTrans (1 for 0), p the loss percentage and the
\* plan's answer as the call saw them: if the answer is the stored data rate
\* and power (the default power for 0) and DisableFCntCheck is not set, the
\* call leaves NbTrans at n - 1 for p <= 5, n for 5 < p <= 10, n + 1 for
\* 10 < p <= 30 and n + 2 for p > 30, each limited to 1..3; otherwise at n.
C16_AdjustmentRule ==
    [][SettlesNbTrans =>
          LET n == IF dev.ADR.NbTrans = 0 THEN 1 ELSE dev.ADR.NbTrans
              power == IF dev.ADR.TxPower = 0 THEN DefaultTXPower ELSE dev.ADR.TxPower
              p == adrAnswer'.loss
              applied == /\ adrAnswer'.dataRate = dev.ADR.DataRate
                         /\ adrAnswer'.txPower = power
                         /\ ~dev.Options.DisableFCntCheck
          IN  dev'.ADR.NbTrans =
                  IF ~applied THEN n
                  ELSE IF p <= 5 THEN Clamped(n - 1)
                  ELSE IF p <= 10 THEN Clamped(n)
                  ELSE IF p <= 30 THEN Clamped(n + 1)
                  ELSE Clamped(n + 2)]_vars

\* C16 witness: a loss of 5 percent has taken NbTrans from 3 to 2 with the
\* plan keeping data rate and power.
C16_Witness ==
    /\ last.op = "downlink"
    /\ last.path = "emitted"
    /\ adrAnswer.loss = 5
    /\ adrAnswer.dataRate = dev.ADR.DataRate
    /\ adrAnswer.txPower = dev.ADR.TxPower
    /\ ~dev.Options.DisableFCntCheck
    /\ dev.ADR.NbTrans = 2

\* consecutive counters, one frame per counter, newest first
GapFree(frames) ==
    /\ Len(frames) > 0
    /\ \A i \in 1..(Len(frames) - 1) : frames[i].FCnt = frames[i + 1].FCnt + 1

\* no counter twice, and the newest frame's not below the oldest frame's
DistinctCounters(frames) ==
    /\ Len(frames) > 0
    /\ frames[1].FCnt >= frames[Len(frames)].FCnt
    /\ \A i, j \in 1..Len(frames) : i # j => frames[i].FCnt # frames[j].FCnt

\* whether r is num / den rounded to the nearest integer (den > 0)
IsRounded(r, num, den) ==
    /\ (2 * r - 1) * den <= 2 * num
    /\ 2 * num <= (2 * r + 1) * den

\* C17: lossPercentage gives 0 on a window of consecutive counters; on a
\* window of distinct counters whose newest is not below its oldest it gives
\* 100 * (sentPackets - samples) / sentPackets rounded, with sentPackets =
\* newest.FCnt - oldest.FCnt + 1; on the counters 100..119 without 105 and 110
\* it gives 10.
C17_LossPercentageRounds ==
    last.op = "lossPercentage" =>
        LET frames == history
            sent == frames[1].FCnt - frames[Len(frames)].FCnt + 1
        IN  /\ GapFree(frames) => adrAnswer.loss = 0
            /\ DistinctCounters(frames) =>
                  IsRounded(adrAnswer.loss, 100 * (sent - Len(frames)), sent)
            /\ frames = ExampleWindow => adrAnswer.loss = 10

\* C19: lossPercentage of the frames handleUplinkADR has pushed is a
\* percentage, 0..100, whatever the counters of the uplinks were.
C19_LossIsPercentage ==
    \A loss \in lossPercentage(history) : loss \in 0..100

\* bit i of the channel mask of an encoded LinkADRReq
MaskBit(command, i) ==
    ((IF i < 8 THEN command.Payload[2] ELSE command.Payload[3]) \div (2 ^ (i % 8))) % 2

\* the data-rate index of an encoded LinkADRReq
DataRateIndex(command) == command.Payload[1] \div 16

\* C18: in an emitted LinkADRReq, mask bit i is set exactly when i is one of
\* the plan's uplink channels and the data rates of that channel include the
\* data-rate index of the command.
C18_ChannelMask ==
    Emitted =>
        LET fOpts == lorawanDownlinkMAC.FOpts
            command == fOpts[Len(fOpts)]
        IN  /\ Len(command.Payload) = 4
            /\ \A i \in 0..15 :
                  MaskBit(command, i) = 1 <=>
                      /\ i < Len(UplinkChannels)
                      /\ DataRateIndex(command) \in
                            {UplinkChannels[i + 1][k] : k \in 1..Len(UplinkChannels[i + 1])}

\* C18 witness: a LinkADRReq for data-rate index 2, which the first and the
\* third channel allow and the second does not.
C18_Witness ==
    /\ Emitted
    /\ DataRateIndex(lorawanDownlinkMAC.FOpts[Len(lorawanDownlinkMAC.FOpts)]) = 2
    /\ lorawanDownlinkMAC.FOpts[Len(lorawanDownlinkMAC.FOpts)].Payload[2] = 5

\* C20: in calls of handleDownlinkADR in a row on one full window, which the
\* plan answers with the stored data rate and power, at most 2 LinkADRReq are
\* emitted, whatever the loss percentage of the window; and once such a call
\* has emitted none, the next changes nothing and emits none.
C20_ConvergesInTwo ==
    [][/\ run'.emits <= 2
       /\ (run.kept /\ run'.kept /\ last.path = "same") =>
             (last'.path = "same" /\ NoEffect)]_vars

\* C20 witness: on a window with a loss of 13 percent two LinkADRReq have
\* taken NbTrans to 3, and the call after them has found the settings the same.
C20_Witness ==
    /\ run.kept
    /\ run.emits = 2
    /\ last.op = "downlink"
    /\ last.path = "same"
    /\ adrAnswer.loss = 13
    /\ dev.ADR.NbTrans = 3

====
